---- MODULE Spec2Model ----
(***************************************************************************)
(* Bounded string scans of safestringlib: strstr_s, strcasestr_s,          *)
(* strcspn_s and strisuppercase_s (src/safeclib).                          *)
(*                                                                         *)
(* A call is one action.  Its arguments are drawn from bounded sets, the   *)
(* C function is evaluated as the source evaluates it (same order of       *)
(* checks, same short-circuit order of the loop guards, so the same bytes  *)
(* are read), and the state after the action is the caller's view of the   *)
(* finished call: the arguments, the return value, the output object, the  *)
(* constraint handler's invocations, and the byte offsets that were read.  *)
(*                                                                         *)
(* Memory.  A buffer is the readable memory that starts at the pointer: a  *)
(* sequence of bytes whose last byte is NUL.  Bytes after an earlier NUL   *)
(* and bytes at offsets >= dmax are arbitrary, so a read at offset dmax    *)
(* returns whatever the caller's memory holds there.  Offsets are 0-based  *)
(* as in C.                                                                *)
(***************************************************************************)
EXTENDS Integers, Sequences, FiniteSets, TLC

(* ---------------------------- bounds ----------------------------------- *)
\* bytes of the primary buffer before its final NUL
DestLen == 3
\* bytes of the secondary buffer before its final NUL
SrcLen == 2
\* bytes of the buffer handed to strisuppercase_s before its final NUL
UpLen == 3
\* the global ceiling of a declared maximum length; the library's header sets
\* it far higher, the model keeps it near the buffer sizes so that lengths
\* below, at and above the ceiling all occur
RSIZE_MAX_STR == 3

(* ------------------------- program constants --------------------------- *)
\* rsize_t is an unsigned type: arithmetic is modulo 2^16 at least
RSIZE_MOD == 65536

NUL == 0
EOK == "EOK"
ESNULLP == "ESNULLP"
ESZEROL == "ESZEROL"
ESLEMAX == "ESLEMAX"
ESNOTFND == "ESNOTFND"

\* userland build: the status is returned as it is
RCNEGATE(x) == x

\* pointers: <<object, offset>>
NULL == <<"null", 0>>
DestPtr == <<"dest", 0>>
SrcPtr == <<"src", 0>>
\* a pointer left in the output object by earlier code of the caller
StalePtr == <<"other", 0>>
\* counts left in the output object by earlier code of the caller
StaleCounts == {0, 7}
StaleCount == CHOOSE c \in StaleCounts : c # 0

\* 'A', 'B', 'a'
Chars == {NUL, 65, 66, 97}
\* '1', 'A', 'Z', 'a'
UpChars == {NUL, 49, 65, 90, 97}

\* byte sequences of n bytes followed by the final NUL
Buffers(n, alphabet) ==
  { b \in [1..(n + 1) -> alphabet] : b[n + 1] = NUL }

(* ----------------------------- helpers --------------------------------- *)
\* *(p + i) for the buffer B that p points to
At(B, i) == IF i < Len(B) THEN B[i + 1] ELSE NUL

\* x-- on an rsize_t
RsizeDec(x) == (x - 1) % RSIZE_MOD

\* toupper() of <ctype.h> in the "C" locale, on single-byte codes
toupper(c) == IF c >= 97 /\ c <= 122 THEN c - 32 ELSE c

\* invoke_safe_str_constraint_handler(msg, NULL, error)
Violation(msg, error) == [msg |-> msg, error |-> error]

NoReads == [dest |-> {}, src |-> {}]
RdDest(r, i) == [r EXCEPT !.dest = @ \cup {i}]
RdSrc(r, i) == [r EXCEPT !.src = @ \cup {i}]

\* faulty variant of Rejected: returns without having reset the output
Rejected_NoReset(fn, what, error, ret, wrote, out) ==
  [ret |-> ret, wrote |-> FALSE, out |-> out,
   handler |-> <<Violation(fn \o ": " \o what, error)>>,
   reads |-> NoReads]

\* a call rejected by the validation preamble
\* (wrote: the output object was assigned; out: the value it was left with)
Rejected(fn, what, error, ret, wrote, out) ==
  [ret |-> ret, wrote |-> wrote, out |-> out,
   handler |-> <<Violation(fn \o ": " \o what, error)>>,
   reads |-> NoReads]

\* the preamble found nothing to reject
Passed == [ret |-> EOK, wrote |-> TRUE, out |-> NULL, handler |-> <<>>,
           reads |-> NoReads]

(* --------------------------- strisuppercase_s -------------------------- *)
\* the loop of strisuppercase_s: p is dest's offset, dmax the local counter
RECURSIVE UpperLoop(_, _, _, _)
UpperLoop(D, p, dmax, r) ==
  LET r1 == RdDest(r, p)
  IN IF At(D, p) # NUL
       THEN LET r2 == RdDest(r1, p)
            IN IF (At(D, p) < 65) \/ (At(D, p) > 90)
                 THEN [ret |-> FALSE, reads |-> r2, dmaxEnd |-> dmax]
                 ELSE UpperLoop(D, p + 1, RsizeDec(dmax), r2)
       ELSE [ret |-> TRUE, reads |-> r1, dmaxEnd |-> dmax]

\* the runtime-constraint checks of strisuppercase_s
strisuppercase_s_preamble(dest, dmax) ==
  IF dest = NULL
    THEN Rejected("strisuppercase_s", "dest is null", ESNULLP, FALSE, FALSE, NULL)
  ELSE IF dmax = 0
    THEN Rejected("strisuppercase_s", "dmax is 0", ESZEROL, FALSE, FALSE, NULL)
  ELSE IF dmax > RSIZE_MAX_STR
    THEN Rejected("strisuppercase_s", "dmax exceeds max", ESLEMAX, FALSE, FALSE, NULL)
  ELSE Passed

strisuppercase_s(D, dest, dmax) ==
  LET v == strisuppercase_s_preamble(dest, dmax)
  IN
  IF v.handler # <<>> THEN v
  ELSE IF At(D, 0) = NUL
    THEN [ret |-> FALSE, wrote |-> FALSE, out |-> NULL, handler |-> <<>>,
          reads |-> RdDest(NoReads, 0), dmaxEnd |-> dmax]
  ELSE LET l == UpperLoop(D, 0, dmax, RdDest(NoReads, 0))
       IN [ret |-> l.ret, wrote |-> FALSE, out |-> NULL, handler |-> <<>>,
           reads |-> l.reads, dmaxEnd |-> l.dmaxEnd]

(* ------------------------------- strstr_s ------------------------------ *)
\* faulty variant of StrstrInner: the guard "while (src[i])", without dlen
RECURSIVE StrstrInner_NoDlen(_, _, _, _, _, _, _)
StrstrInner_NoDlen(D, S, p, i, len, dlen, r) ==
  LET r1 == RdSrc(r, i)
  IN IF At(S, i) # NUL
       THEN LET r2 == RdSrc(RdDest(r1, p + i), i)
            IN IF At(D, p + i) # At(S, i)
                 THEN [found |-> FALSE, reads |-> r2]
                 ELSE LET r3 == RdSrc(r2, i + 1)
                      IN IF At(S, i + 1) = NUL \/ RsizeDec(len) = 0
                           THEN [found |-> TRUE, reads |-> r3]
                           ELSE StrstrInner_NoDlen(D, S, p, i + 1, RsizeDec(len),
                                                   RsizeDec(dlen), r3)
       ELSE [found |-> FALSE, reads |-> r1]

\* the inner while of strstr_s at candidate offset p
RECURSIVE StrstrInner(_, _, _, _, _, _, _)
StrstrInner(D, S, p, i, len, dlen, r) ==
  LET r1 == RdSrc(r, i)
  IN IF At(S, i) # NUL /\ dlen # 0
       THEN LET r2 == RdSrc(RdDest(r1, p + i), i)
            IN IF At(D, p + i) # At(S, i)
                 THEN [found |-> FALSE, reads |-> r2]
                 ELSE LET r3 == RdSrc(r2, i + 1)
                      IN IF At(S, i + 1) = NUL \/ RsizeDec(len) = 0
                           THEN [found |-> TRUE, reads |-> r3]
                           ELSE StrstrInner(D, S, p, i + 1, RsizeDec(len),
                                            RsizeDec(dlen), r3)
       ELSE [found |-> FALSE, reads |-> r1]

\* the outer while of strstr_s: p is dest's offset, dmax the local counter
RECURSIVE StrstrOuter(_, _, _, _, _, _)
StrstrOuter(D, S, p, dmax, slen, r) ==
  LET r1 == RdDest(r, p)
  IN IF At(D, p) # NUL /\ dmax # 0
       THEN LET in == StrstrInner(D, S, p, 0, slen, dmax, r1)
            IN IF in.found
                 THEN [ret |-> RCNEGATE(EOK), wrote |-> TRUE, out |-> <<"dest", p>>,
                       handler |-> <<>>, reads |-> in.reads, dmaxEnd |-> dmax]
                 ELSE StrstrOuter(D, S, p + 1, RsizeDec(dmax), slen, in.reads)
       ELSE [ret |-> RCNEGATE(ESNOTFND), wrote |-> TRUE, out |-> NULL,
             handler |-> <<>>, reads |-> r1, dmaxEnd |-> dmax]

\* the runtime-constraint checks of strstr_s, in the order of the source
strstr_s_preamble(dest, dmax, src, slen, substring) ==
  IF substring = NULL
    THEN Rejected("strstr_s", "substring is null", ESNULLP,
                  RCNEGATE(ESNULLP), FALSE, NULL)
  ELSE IF dest = NULL
    THEN Rejected("strstr_s", "dest is null", ESNULLP,
                  RCNEGATE(ESNULLP), TRUE, NULL)
  ELSE IF dmax = 0
    THEN Rejected("strstr_s", "dmax is 0", ESZEROL,
                  RCNEGATE(ESZEROL), TRUE, NULL)
  ELSE IF dmax > RSIZE_MAX_STR
    THEN Rejected("strstr_s", "dmax exceeds max", ESLEMAX,
                  RCNEGATE(ESLEMAX), TRUE, NULL)
  ELSE IF src = NULL
    THEN Rejected("strstr_s", "src is null", ESNULLP,
                  RCNEGATE(ESNULLP), TRUE, NULL)
  ELSE IF slen = 0
    THEN Rejected("strstr_s", "slen is 0", ESZEROL,
                  RCNEGATE(ESZEROL), TRUE, NULL)
  ELSE IF slen > RSIZE_MAX_STR
    THEN Rejected("strstr_s", "slen exceeds max", ESLEMAX,
                  RCNEGATE(ESLEMAX), TRUE, NULL)
  ELSE Passed

\* D, S: the memory dest and src point to; substring: the output pointer
strstr_s(D, S, dest, dmax, src, slen, substring) ==
  LET v == strstr_s_preamble(dest, dmax, src, slen, substring)
  IN
  IF v.handler # <<>> THEN v
  ELSE IF At(S, 0) = NUL \/ dest = src
    THEN [ret |-> RCNEGATE(EOK), wrote |-> TRUE, out |-> dest,
          handler |-> <<>>, reads |-> RdSrc(NoReads, 0), dmaxEnd |-> dmax]
  ELSE StrstrOuter(D, S, 0, dmax, slen, NoReads)

(* ----------------------------- strcasestr_s ---------------------------- *)
\* faulty variant of StrcasestrInner: success on the needle's NUL only,
\* without the test of len
RECURSIVE StrcasestrInner_NoLen(_, _, _, _, _, _, _)
StrcasestrInner_NoLen(D, S, p, i, len, dlen, r) ==
  LET r1 == RdDest(r, p + i)
  IN IF At(D, p + i) # NUL /\ dlen # 0
       THEN LET r2 == RdSrc(RdDest(r1, p + i), i)
            IN IF toupper(At(D, p + i)) # toupper(At(S, i))
                 THEN [found |-> FALSE, reads |-> r2]
                 ELSE LET r3 == RdSrc(r2, i + 1)
                      IN IF At(S, i + 1) = NUL
                           THEN [found |-> TRUE, reads |-> r3]
                           ELSE StrcasestrInner_NoLen(D, S, p, i + 1,
                                                      RsizeDec(len),
                                                      RsizeDec(dlen), r3)
       ELSE [found |-> FALSE, reads |-> r1]

\* faulty variant of StrcasestrInner: toupper() applied to dest[i] only
RECURSIVE StrcasestrInner_RawSrc(_, _, _, _, _, _, _)
StrcasestrInner_RawSrc(D, S, p, i, len, dlen, r) ==
  LET r1 == RdDest(r, p + i)
  IN IF At(D, p + i) # NUL /\ dlen # 0
       THEN LET r2 == RdSrc(RdDest(r1, p + i), i)
            IN IF toupper(At(D, p + i)) # At(S, i)
                 THEN [found |-> FALSE, reads |-> r2]
                 ELSE LET r3 == RdSrc(r2, i + 1)
                      IN IF At(S, i + 1) = NUL \/ RsizeDec(len) = 0
                           THEN [found |-> TRUE, reads |-> r3]
                           ELSE StrcasestrInner_RawSrc(D, S, p, i + 1,
                                                       RsizeDec(len),
                                                       RsizeDec(dlen), r3)
       ELSE [found |-> FALSE, reads |-> r1]

\* the inner while of strcasestr_s at candidate offset p
RECURSIVE StrcasestrInner(_, _, _, _, _, _, _)
StrcasestrInner(D, S, p, i, len, dlen, r) ==
  LET r1 == RdDest(r, p + i)
  IN IF At(D, p + i) # NUL /\ dlen # 0
       THEN LET r2 == RdSrc(RdDest(r1, p + i), i)
            IN IF toupper(At(D, p + i)) # toupper(At(S, i))
                 THEN [found |-> FALSE, reads |-> r2]
                 ELSE LET r3 == RdSrc(r2, i + 1)
                      IN IF At(S, i + 1) = NUL \/ RsizeDec(len) = 0
                           THEN [found |-> TRUE, reads |-> r3]
                           ELSE StrcasestrInner(D, S, p, i + 1, RsizeDec(len),
                                                RsizeDec(dlen), r3)
       ELSE [found |-> FALSE, reads |-> r1]

\* faulty variant of StrcasestrOuter: NotFound reported to the handler
RECURSIVE StrcasestrOuter_ReportsNotFound(_, _, _, _, _, _)
StrcasestrOuter_ReportsNotFound(D, S, p, dmax, slen, r) ==
  LET r1 == RdDest(r, p)
  IN IF At(D, p) # NUL /\ dmax # 0
       THEN LET in == StrcasestrInner(D, S, p, 0, slen, dmax, r1)
            IN IF in.found
                 THEN [ret |-> EOK, wrote |-> TRUE, out |-> <<"dest", p>>,
                       handler |-> <<>>, reads |-> in.reads, dmaxEnd |-> dmax]
                 ELSE StrcasestrOuter_ReportsNotFound(D, S, p + 1,
                                                      RsizeDec(dmax), slen,
                                                      in.reads)
       ELSE [ret |-> ESNOTFND, wrote |-> TRUE, out |-> NULL,
             handler |-> <<Violation("strcasestr_s: not found", ESNOTFND)>>,
             reads |-> r1, dmaxEnd |-> dmax]

\* the outer while of strcasestr_s
RECURSIVE StrcasestrOuter(_, _, _, _, _, _)
StrcasestrOuter(D, S, p, dmax, slen, r) ==
  LET r1 == RdDest(r, p)
  IN IF At(D, p) # NUL /\ dmax # 0
       THEN LET in == StrcasestrInner(D, S, p, 0, slen, dmax, r1)
            IN IF in.found
                 THEN [ret |-> EOK, wrote |-> TRUE, out |-> <<"dest", p>>,
                       handler |-> <<>>, reads |-> in.reads, dmaxEnd |-> dmax]
                 ELSE StrcasestrOuter(D, S, p + 1, RsizeDec(dmax), slen, in.reads)
       ELSE [ret |-> ESNOTFND, wrote |-> TRUE, out |-> NULL,
             handler |-> <<>>, reads |-> r1, dmaxEnd |-> dmax]

\* the runtime-constraint checks of strcasestr_s, in the order of the source
strcasestr_s_preamble(dest, dmax, src, slen, substring) ==
  IF substring = NULL
    THEN Rejected("strcasestr_s", "substring is null", ESNULLP, ESNULLP,
                  FALSE, NULL)
  ELSE IF dest = NULL
    THEN Rejected("strcasestr_s", "dest is null", ESNULLP, ESNULLP, TRUE, NULL)
  ELSE IF dmax = 0
    THEN Rejected("strcasestr_s", "dmax is 0", ESZEROL, ESZEROL, TRUE, NULL)
  ELSE IF dmax > RSIZE_MAX_STR
    THEN Rejected("strcasestr_s", "dmax exceeds max", ESLEMAX, ESLEMAX,
                  TRUE, NULL)
  ELSE IF src = NULL
    THEN Rejected("strcasestr_s", "src is null", ESNULLP, ESNULLP, TRUE, NULL)
  ELSE IF slen = 0
    THEN Rejected("strcasestr_s", "slen is 0", ESZEROL, ESZEROL, TRUE, NULL)
  ELSE IF slen > RSIZE_MAX_STR
    THEN Rejected("strcasestr_s", "slen exceeds max", ESLEMAX, ESLEMAX,
                  TRUE, NULL)
  ELSE Passed

strcasestr_s(D, S, dest, dmax, src, slen, substring) ==
  LET v == strcasestr_s_preamble(dest, dmax, src, slen, substring)
  IN
  IF v.handler # <<>> THEN v
  ELSE IF At(S, 0) = NUL \/ dest = src
    THEN [ret |-> EOK, wrote |-> TRUE, out |-> dest,
          handler |-> <<>>, reads |-> RdSrc(NoReads, 0), dmaxEnd |-> dmax]
  ELSE StrcasestrOuter(D, S, 0, dmax, slen, NoReads)

(* ------------------------------ strcspn_s ------------------------------ *)
\* faulty variant of StrcspnInner: the guard "while (*scan2)", without smax
RECURSIVE StrcspnInner_NoSmax(_, _, _, _, _)
StrcspnInner_NoSmax(S, c, q, smax, r) ==
  LET r1 == RdSrc(r, q)
  IN IF At(S, q) # NUL
       THEN IF c = At(S, q)
              THEN [found |-> TRUE, reads |-> r1]
              ELSE StrcspnInner_NoSmax(S, c, q + 1, RsizeDec(smax), r1)
       ELSE [found |-> FALSE, reads |-> r1]

\* the inner while of strcspn_s: is the byte c among the exclusions?
RECURSIVE StrcspnInner(_, _, _, _, _)
StrcspnInner(S, c, q, smax, r) ==
  LET r1 == RdSrc(r, q)
  IN IF At(S, q) # NUL /\ smax # 0
       THEN IF c = At(S, q)
              THEN [found |-> TRUE, reads |-> r1]
              ELSE StrcspnInner(S, c, q + 1, RsizeDec(smax), r1)
       ELSE [found |-> FALSE, reads |-> r1]

\* the outer while of strcspn_s: p is dest's offset, count is *count
RECURSIVE StrcspnOuter(_, _, _, _, _, _, _)
StrcspnOuter(D, S, p, dmax, slen, count, r) ==
  LET r1 == RdDest(r, p)
  IN IF At(D, p) # NUL /\ dmax # 0
       THEN LET in == StrcspnInner(S, At(D, p), 0, slen, r1)
            IN IF in.found
                 THEN [ret |-> RCNEGATE(EOK), wrote |-> TRUE, out |-> count,
                       handler |-> <<>>, reads |-> in.reads, dmaxEnd |-> dmax]
                 ELSE StrcspnOuter(D, S, p + 1, RsizeDec(dmax), slen,
                                   (count + 1) % RSIZE_MOD, in.reads)
       ELSE [ret |-> RCNEGATE(EOK), wrote |-> TRUE, out |-> count,
             handler |-> <<>>, reads |-> r1, dmaxEnd |-> dmax]

\* faulty variant of strcspn_s_preamble: src is checked after dmax
strcspn_s_preamble_SrcAfterDmax(dest, dmax, src, slen, count) ==
  IF count = NULL
    THEN Rejected("strcspn_s", "count is null", ESNULLP,
                  RCNEGATE(ESNULLP), FALSE, 0)
  ELSE IF dest = NULL
    THEN Rejected("strcspn_s", "dest is null", ESNULLP,
                  RCNEGATE(ESNULLP), TRUE, 0)
  ELSE IF dmax = 0
    THEN Rejected("strcspn_s", "dmax is 0", ESZEROL,
                  RCNEGATE(ESZEROL), TRUE, 0)
  ELSE IF dmax > RSIZE_MAX_STR
    THEN Rejected("strcspn_s", "dmax exceeds max", ESLEMAX,
                  RCNEGATE(ESLEMAX), TRUE, 0)
  ELSE IF src = NULL
    THEN Rejected("strcspn_s", "src is null", ESNULLP,
                  RCNEGATE(ESNULLP), TRUE, 0)
  ELSE IF slen = 0
    THEN Rejected("strcspn_s", "slen is 0", ESZEROL,
                  RCNEGATE(ESZEROL), TRUE, 0)
  ELSE IF slen > RSIZE_MAX_STR
    THEN Rejected("strcspn_s", "slen exceeds max", ESLEMAX,
                  RCNEGATE(ESLEMAX), TRUE, 0)
  ELSE Passed

\* the runtime-constraint checks of strcspn_s, in the order of the source
strcspn_s_preamble(dest, dmax, src, slen, count) ==
  IF count = NULL
    THEN Rejected("strcspn_s", "count is null", ESNULLP,
                  RCNEGATE(ESNULLP), FALSE, 0)
  ELSE IF dest = NULL
    THEN Rejected("strcspn_s", "dest is null", ESNULLP,
                  RCNEGATE(ESNULLP), TRUE, 0)
  ELSE IF src = NULL
    THEN Rejected("strcspn_s", "src is null", ESNULLP,
                  RCNEGATE(ESNULLP), TRUE, 0)
  ELSE IF dmax = 0
    THEN Rejected("strcspn_s", "dmax is 0", ESZEROL,
                  RCNEGATE(ESZEROL), TRUE, 0)
  ELSE IF dmax > RSIZE_MAX_STR
    THEN Rejected("strcspn_s", "dmax exceeds max", ESLEMAX,
                  RCNEGATE(ESLEMAX), TRUE, 0)
  ELSE IF slen = 0
    THEN Rejected("strcspn_s", "slen is 0", ESZEROL,
                  RCNEGATE(ESZEROL), TRUE, 0)
  ELSE IF slen > RSIZE_MAX_STR
    THEN Rejected("strcspn_s", "slen exceeds max", ESLEMAX,
                  RCNEGATE(ESLEMAX), TRUE, 0)
  ELSE Passed

strcspn_s(D, S, dest, dmax, src, slen, count) ==
  LET v == strcspn_s_preamble(dest, dmax, src, slen, count)
  IN
  IF v.handler # <<>> THEN v
  ELSE StrcspnOuter(D, S, 0, dmax, slen, 0, NoReads)

(* ------------------------------ the caller ----------------------------- *)
\* the address of the caller's output object (char *substring; rsize_t count)
OutPtr == <<"out", 0>>

Lens == 0..(RSIZE_MAX_STR + 1)
ValidLens == 1..RSIZE_MAX_STR

DestBuffers == Buffers(DestLen, Chars)
SrcBuffers == Buffers(SrcLen, Chars)
UpBuffers == Buffers(UpLen, UpChars)

\* sample contents ("ABB..", "BB..", "") for the calls the preamble decides
SampleDest == {[i \in 1..(DestLen + 1) |-> IF i > DestLen THEN NUL
                                           ELSE IF i = 1 THEN 65 ELSE 66]}
SampleSrc == {[i \in 1..(SrcLen + 1) |-> IF i > SrcLen THEN NUL ELSE 66],
              [i \in 1..(SrcLen + 1) |-> NUL]}

\* arguments of a two-buffer call: D and S are the bytes behind dest and src
\* (when src = dest, both point into D and S is not used: one S stands for it)
Args(Ds, Ss, dests, srcs, lens, outs, priors) ==
  [D : Ds, S : Ss, dest : dests, dmax : lens, src : srcs \ {DestPtr},
   slen : lens, outp : outs, prior : priors]
  \cup
  [D : Ds, S : {CHOOSE b \in Ss : TRUE}, dest : dests, dmax : lens,
   src : srcs \cap {DestPtr}, slen : lens, outp : outs, prior : priors]

\* every byte content, with arguments that pass the preamble
ScanArgs(priors) ==
  Args(DestBuffers, SrcBuffers, {DestPtr}, {SrcPtr, DestPtr}, ValidLens,
       {OutPtr}, priors)

\* every combination of null pointers and lengths, over sample contents
PreambleArgs(priors) ==
  Args(SampleDest, SampleSrc, {NULL, DestPtr}, {NULL, SrcPtr, DestPtr}, Lens,
       {NULL, OutPtr}, priors)

SearchArgs == ScanArgs({StalePtr}) \cup PreambleArgs({StalePtr, NULL})
SpanArgs == ScanArgs({StaleCount}) \cup PreambleArgs(StaleCounts)

\* the bytes src points to
SrcMem(a) == IF a.src = a.dest THEN a.D ELSE a.S

VARIABLES
  pc,        \* "idle" before the call, "returned" after it
  op,        \* the function called
  args,      \* its arguments and the memory behind them, as at the call
  mem,       \* the memory behind dest and src after the call
  ret,       \* the value returned
  outv,      \* the caller's output object
  handler,   \* the constraint handler's invocations, in order
  reads,     \* the offsets read through dest and through src
  dmaxEnd    \* the local counter dmax when the function returned

vars == <<pc, op, args, mem, ret, outv, handler, reads, dmaxEnd>>

NoArgs == [D |-> <<NUL>>, S |-> <<NUL>>, dest |-> NULL, dmax |-> 0,
           src |-> NULL, slen |-> 0, outp |-> NULL, prior |-> NULL]

Init ==
  /\ pc = "idle"
  /\ op = "none"
  /\ args = NoArgs
  /\ mem = [dest |-> <<NUL>>, src |-> <<NUL>>]
  /\ ret = EOK
  /\ outv = NULL
  /\ handler = <<>>
  /\ reads = NoReads
  /\ dmaxEnd = 0

\* the state the call leaves: no function writes through dest or src
Returned(fn, a, res) ==
  /\ pc' = "returned"
  /\ op' = fn
  /\ args' = a
  /\ mem' = [dest |-> a.D, src |-> SrcMem(a)]
  /\ ret' = res.ret
  /\ outv' = IF res.wrote THEN res.out ELSE a.prior
  /\ handler' = res.handler
  /\ reads' = res.reads
  /\ dmaxEnd' = IF res.handler = <<>> THEN res.dmaxEnd ELSE a.dmax

Call_strstr_s ==
  /\ pc = "idle"
  /\ \E a \in SearchArgs :
       Returned("strstr_s", a,
                strstr_s(a.D, SrcMem(a), a.dest, a.dmax, a.src, a.slen, a.outp))

Call_strcasestr_s ==
  /\ pc = "idle"
  /\ \E a \in SearchArgs :
       Returned("strcasestr_s", a,
                strcasestr_s(a.D, SrcMem(a), a.dest, a.dmax, a.src, a.slen, a.outp))

Call_strcspn_s ==
  /\ pc = "idle"
  /\ \E a \in SpanArgs :
       Returned("strcspn_s", a,
                strcspn_s(a.D, SrcMem(a), a.dest, a.dmax, a.src, a.slen, a.outp))

Call_strisuppercase_s ==
  /\ pc = "idle"
  /\ \E D \in UpBuffers, dest \in {NULL, DestPtr}, dmax \in Lens :
       Returned("strisuppercase_s",
                [NoArgs EXCEPT !.D = D, !.dest = dest, !.dmax = dmax],
                strisuppercase_s(D, dest, dmax))

Next ==
  \/ Call_strstr_s
  \/ Call_strcasestr_s
  \/ Call_strcspn_s
  \/ Call_strisuppercase_s

Spec == Init /\ [][Next]_vars

(* ============================ properties =============================== *)
Min(X) == CHOOSE x \in X : \A y \in X : x <= y

\* offset of the first NUL of B (every buffer ends with one)
StrLen(B) == Min({k \in 0..(Len(B) - 1) : B[k + 1] = NUL})

\* the characters a scan may look at: min(declared maximum, distance to NUL)
Window(B, max) == IF max < StrLen(B) THEN max ELSE StrLen(B)

\* uppercase conversion of a single-byte code, and of a buffer
UpperOf(c) == IF c \in 97..122 THEN c - 32 ELSE c
UpperBuf(B) == [k \in 1..Len(B) |-> UpperOf(B[k])]

TwoBufferOps == {"strstr_s", "strcasestr_s", "strcspn_s"}
SearchOps == {"strstr_s", "strcasestr_s"}

Returns == pc = "returned"

\* the preconditions of the call, by name
Fails(c) ==
  CASE c = "out null" -> args.outp = NULL
    [] c = "dest null" -> args.dest = NULL
    [] c = "dmax zero" -> args.dmax = 0
    [] c = "dmax max" -> args.dmax > RSIZE_MAX_STR
    [] c = "src null" -> args.src = NULL
    [] c = "slen zero" -> args.slen = 0
    [] c = "slen max" -> args.slen > RSIZE_MAX_STR

KindOf(c) ==
  CASE c \in {"out null", "dest null", "src null"} -> ESNULLP
    [] c \in {"dmax zero", "slen zero"} -> ESZEROL
    [] c \in {"dmax max", "slen max"} -> ESLEMAX

MessageOf(fn, c) ==
  fn \o ": " \o
  (CASE c = "out null" -> (IF fn = "strcspn_s" THEN "count is null"
                                               ELSE "substring is null")
     [] c = "dest null" -> "dest is null"
     [] c = "dmax zero" -> "dmax is 0"
     [] c = "dmax max" -> "dmax exceeds max"
     [] c = "src null" -> "src is null"
     [] c = "slen zero" -> "slen is 0"
     [] c = "slen max" -> "slen exceeds max")

Preconditions(fn) ==
  IF fn = "strisuppercase_s"
    THEN {"dest null", "dmax zero", "dmax max"}
    ELSE {"out null", "dest null", "dmax zero", "dmax max",
          "src null", "slen zero", "slen max"}

Violated == {c \in Preconditions(op) : Fails(c)}
Valid == Returns /\ Violated = {}

\* the first check of the sequence `order` that fails
FirstFailing(order) ==
  order[Min({k \in 1..Len(order) : Fails(order[k])})]

ReportsOnly(c) ==
  /\ handler = <<Violation(MessageOf(op, c), KindOf(c))>>
  /\ ret = KindOf(c)

\* the order the specification gives for every operation
FixedOrder ==
  <<"out null", "dest null", "dmax zero", "dmax max",
    "src null", "slen zero", "slen max">>

\* the order of strcspn_s: both pointers before any length
SpanOrder ==
  <<"out null", "dest null", "src null", "dmax zero", "dmax max",
    "slen zero", "slen max">>

(* ------------------------------- C1 ------------------------------------ *)
\* C1: in a call that passes validation, every offset read through dest is
\* below dmax and not beyond dest's first NUL, and every offset read through
\* src is below slen and not beyond src's first NUL.
C1_ReadsWithinBounds ==
  Valid =>
    /\ \A i \in reads.dest : i < args.dmax /\ i <= StrLen(mem.dest)
    /\ \A i \in reads.src : i < args.slen /\ i <= StrLen(mem.src)

(* ------------------------------- C2 ------------------------------------ *)
\* C2 as stated: every two-buffer operation reports, and returns the status
\* of, the first failing check of the one fixed order.
C2_FixedOrderEverywhere ==
  (Returns /\ op \in TwoBufferOps /\ Violated # {}) =>
    ReportsOnly(FirstFailing(FixedOrder))

\* C2 amended: strstr_s and strcasestr_s follow the fixed order; strcspn_s
\* checks the secondary pointer for null right after the primary pointer,
\* before any length; each reports only the first failing check of its order.
C2_OrderPerOperation ==
  (Returns /\ op \in TwoBufferOps /\ Violated # {}) =>
    ReportsOnly(FirstFailing(IF op = "strcspn_s" THEN SpanOrder
                                                 ELSE FixedOrder))

\* strcspn_s called with dmax = 0 and a null src reports the null pointer
C2_Witness ==
  /\ Returns /\ op = "strcspn_s"
  /\ args.outp # NULL /\ args.dest # NULL
  /\ args.dmax = 0 /\ args.src = NULL
  /\ ret = ESNULLP

(* ------------------------------- C3 ------------------------------------ *)
\* C3: a valid strisuppercase_s call returns true iff the first
\* min(dmax, length) characters are non-empty and all in 'A'..'Z', and the
\* counter dmax is never decremented below zero.
C3_UpperOfScannedPrefix ==
  (Valid /\ op = "strisuppercase_s") =>
    LET n == Window(mem.dest, args.dmax)
    IN /\ ret = (n > 0 /\ \A k \in 0..(n - 1) : At(mem.dest, k) \in 65..90)
       /\ dmaxEnd <= args.dmax

(* ------------------------------- C4 ------------------------------------ *)
\* C4: the declared maximum lengths bound every scan: a valid call visits at
\* most dmax positions of the primary buffer and at most slen positions of
\* the secondary buffer (the position whose read ends a loop is allowed on
\* top of that).
C4_VisitsBoundedByMax ==
  Valid =>
    /\ Cardinality(reads.dest) <= args.dmax + 1
    /\ Cardinality(reads.src) <= args.slen + 1

(* ------------------------------- C5 ------------------------------------ *)
\* offsets p at which the first m characters of S occur in D, wholly inside
\* the first n characters of D, characters compared after applying f
Occurrences(D, n, S, m, f(_)) ==
  {p \in 0..(n - m) : \A k \in 0..(m - 1) : f(At(D, p + k)) = f(At(S, k))}

Same(c) == c

\* C5: strstr_s with a non-empty needle that fits within slen, in a buffer of
\* its own: Ok and the leftmost occurrence inside the first
\* min(dmax, length) characters of the haystack if there is one, otherwise
\* NotFound and an empty output.
C5_StrstrLeftmost ==
  (Valid /\ op = "strstr_s" /\ args.src # args.dest
     /\ StrLen(mem.src) > 0 /\ StrLen(mem.src) <= args.slen) =>
    LET occ == Occurrences(mem.dest, Window(mem.dest, args.dmax),
                           mem.src, StrLen(mem.src), Same)
    IN IF occ # {}
         THEN ret = EOK /\ outv = <<"dest", Min(occ)>>
         ELSE ret = ESNOTFND /\ outv = NULL

\* a two-character needle found at offset 1, after a position that matched
\* its first character only
C5_Witness ==
  /\ Valid /\ op = "strstr_s" /\ args.src # args.dest
  /\ StrLen(mem.src) > 1 /\ StrLen(mem.src) <= args.slen
  /\ At(mem.dest, 0) = At(mem.src, 0)
  /\ ret = EOK /\ outv = <<"dest", 1>>

(* ------------------------------- C6 ------------------------------------ *)
\* C6: when the needle holds more than slen characters, strstr_s and
\* strcasestr_s succeed at the leftmost position where the first slen needle
\* characters compare equal (for strcasestr_s: equal after uppercasing)
\* inside the haystack's bounds, whatever follows in the needle.
C6_TruncatedNeedle ==
  (Valid /\ op \in SearchOps /\ StrLen(mem.src) > args.slen) =>
    LET n == Window(mem.dest, args.dmax)
        cand == IF op = "strstr_s"
                  THEN Occurrences(mem.dest, n, mem.src, args.slen, Same)
                  ELSE Occurrences(mem.dest, n, mem.src, args.slen, UpperOf)
    IN cand # {} => (ret = EOK /\ outv = <<"dest", Min(cand)>>)

\* a needle cut by slen matches although its next character differs from
\* the haystack's
C6_Witness ==
  /\ Valid /\ op \in SearchOps /\ args.src # args.dest
  /\ StrLen(mem.src) > args.slen
  /\ ret = EOK /\ outv[1] = "dest"
  /\ At(mem.dest, outv[2] + args.slen) # At(mem.src, args.slen)
  /\ UpperOf(At(mem.dest, outv[2] + args.slen)) # UpperOf(At(mem.src, args.slen))

(* ------------------------------- C7 ------------------------------------ *)
\* C7: a valid strcspn_s call returns Ok and writes the length of the
\* longest prefix of the subject's first min(dmax, length) characters holding
\* none of the exclusion set's first min(slen, length) characters.
C7_SpanCount ==
  (Valid /\ op = "strcspn_s") =>
    LET n == Window(mem.dest, args.dmax)
        excl == {At(mem.src, k) : k \in 0..(Window(mem.src, args.slen) - 1)}
        hits == {p \in 0..(n - 1) : At(mem.dest, p) \in excl}
    IN /\ ret = EOK
       /\ outv = IF hits = {} THEN n ELSE Min(hits)

\* the span stops inside the subject, at a character that is the second of
\* the exclusion set
C7_Witness ==
  /\ Valid /\ op = "strcspn_s" /\ args.src # args.dest
  /\ outv > 0 /\ outv < Window(mem.dest, args.dmax)
  /\ At(mem.dest, outv) = At(mem.src, 1)
  /\ At(mem.dest, outv) # At(mem.src, 0)

(* ------------------------------- C8 ------------------------------------ *)
\* C8: a call that violates a precondition invokes the constraint handler
\* exactly once, with the kind of a violated precondition, and reads no
\* character; a call that passes validation never invokes it.
C8_HandlerExactlyOnViolation ==
  Returns =>
    IF Violated # {}
      THEN /\ Len(handler) = 1
           /\ handler[1].error \in {KindOf(c) : c \in Violated}
           /\ reads = NoReads
      ELSE handler = <<>>

\* a search that ends NotFound after scanning, and the handler was not called
C8_Witness ==
  /\ Valid /\ op = "strcasestr_s"
  /\ ret = ESNOTFND /\ reads.dest # {} /\ handler = <<>>

(* ------------------------------- C9 ------------------------------------ *)
\* C9: with a non-null output parameter, the output is empty (null position,
\* count 0) after any status other than Ok, whatever it held before, and a
\* non-empty match position comes only with Ok and lies in the haystack.
C9_OutputEmptyUnlessOk ==
  (Returns /\ op \in TwoBufferOps /\ args.outp # NULL) =>
    /\ ret # EOK => outv = (IF op = "strcspn_s" THEN 0 ELSE NULL)
    /\ (op \in SearchOps /\ outv # NULL) =>
         /\ ret = EOK
         /\ outv[1] = "dest"
         /\ outv[2] < args.dmax /\ outv[2] <= StrLen(mem.dest)

\* a rejected call resets an output that held a stale pointer
C9_Witness ==
  /\ Returns /\ op = "strstr_s" /\ args.outp # NULL
  /\ args.prior = StalePtr
  /\ ret = ESLEMAX /\ outv = NULL

(* ------------------------------- C10 ----------------------------------- *)
\* C10: strcasestr_s returns the status and the match position that strstr_s
\* returns on the uppercase-converted haystack and needle, same dmax and
\* slen, same buffer identity.
C10_CaseInsensitiveIsStrstrOfUpper ==
  (Returns /\ op = "strcasestr_s") =>
    LET r == strstr_s(UpperBuf(mem.dest), UpperBuf(mem.src), args.dest,
                      args.dmax, args.src, args.slen, args.outp)
    IN /\ ret = r.ret
       /\ outv = IF r.wrote THEN r.out ELSE args.prior

\* a match past offset 0 whose characters differ in case from the needle's
C10_Witness ==
  /\ Valid /\ op = "strcasestr_s" /\ args.src # args.dest
  /\ ret = EOK /\ outv[1] = "dest" /\ outv[2] > 0
  /\ At(mem.dest, outv[2]) # At(mem.src, 0)

====
